---------------------------- MODULE Spec2Model ----------------------------
(***************************************************************************)
(* Model of listalyze.py: inference of the numbering scheme of a list of   *)
(* labels, conversion of the labels to ordinals, default-order detection.  *)
(*                                                                         *)
(* A unicode string is a sequence of one-character strings.  An element of *)
(* the `numbers` iterable is a record [type, text]: type is the Python     *)
(* type name of the element, text its characters (empty for a non-string). *)
(***************************************************************************)
EXTENDS Integers, Sequences, FiniteSets, TLC

VARIABLES numbers, require_dot, mixed_case,
          pc, numbers_list, raw_numbers_list, number_schemes,
          result, raised

vars == <<numbers, require_dot, mixed_case, pc, numbers_list,
          raw_numbers_list, number_schemes, result, raised>>

---------------------------------------------------------------------------
(* Bounds of the explored inputs.                                          *)

\* longest sequence built from the sample labels
MaxLen == 2
\* longest prefix a, b, ..., of the alphabetic enumeration given as input
MaxPrefix == 28
\* pairs (s-th label, t-th label) of the enumeration, s, t <= MaxPair
MaxPair == 30
\* single labels of the enumeration up to the MaxOrd-th (703 = aaa)
MaxOrd == 704

---------------------------------------------------------------------------
(* Characters.                                                             *)

digits == <<"0", "1", "2", "3", "4", "5", "6", "7", "8", "9">>

ascii_lowercase == <<"a", "b", "c", "d", "e", "f", "g", "h", "i", "j", "k",
                     "l", "m", "n", "o", "p", "q", "r", "s", "t", "u", "v",
                     "w", "x", "y", "z">>

ascii_uppercase == <<"A", "B", "C", "D", "E", "F", "G", "H", "I", "J", "K",
                     "L", "M", "N", "O", "P", "Q", "R", "S", "T", "U", "V",
                     "W", "X", "Y", "Z">>

Range(s) == {s[i] : i \in DOMAIN s}

IndexIn(ch, s) == CHOOSE i \in DOMAIN s : s[i] = ch

\* characters unicode.strip() removes: the Unicode whitespace a string of
\* this module can hold, U+0009..U+000D, U+001C..U+001F and U+0020 (the
\* control characters other than \t, \n, \f, \r stand in their strings as
\* themselves); the whitespace above U+007F (U+0085, U+00A0, U+1680,
\* U+2000.., U+3000) cannot be written in a string here
Whitespace == {"\t", "\n", "", "\f", "\r",
               "", "", "", "", " "}

\* ord(ch), for the characters the inputs use
Ord(ch) ==
    CASE ch \in Range(ascii_lowercase) -> 96 + IndexIn(ch, ascii_lowercase)
      [] ch \in Range(ascii_uppercase) -> 64 + IndexIn(ch, ascii_uppercase)
      [] ch \in Range(digits)          -> 47 + IndexIn(ch, digits)
      [] ch = "."                      -> 46
      [] ch = "-"                      -> 45
      [] ch = " "                      -> 32
      [] ch = ""                      -> 31
      [] ch = ""                      -> 30
      [] ch = ""                      -> 29
      [] ch = ""                      -> 28
      [] ch = "\r"                     -> 13
      [] ch = "\f"                     -> 12
      [] ch = ""                      -> 11
      [] ch = "\n"                     -> 10
      [] ch = "\t"                     -> 9

\* unicode.upper() of one character
UpperChar(ch) ==
    IF ch \in Range(ascii_lowercase)
    THEN ascii_uppercase[IndexIn(ch, ascii_lowercase)]
    ELSE ch

\* number.upper()
Upper(number) == [i \in DOMAIN number |-> UpperChar(number[i])]

Front(s) == SubSeq(s, 1, Len(s) - 1)

Last(s) == s[Len(s)]

RECURSIVE LStrip(_)
LStrip(s) ==
    IF s # <<>> /\ s[1] \in Whitespace THEN LStrip(Tail(s)) ELSE s

RECURSIVE RStrip(_)
RStrip(s) ==
    IF s # <<>> /\ Last(s) \in Whitespace THEN RStrip(Front(s)) ELSE s

\* number.strip()
Strip(s) == RStrip(LStrip(s))

---------------------------------------------------------------------------
(* Converters for numbering schemes.                                       *)

\* int( number ), for a string of ASCII digits
RECURSIVE convert_decimal(_)
convert_decimal(number) ==
    IF number = <<>> THEN 0
    ELSE convert_decimal(Front(number)) * 10 + (Ord(Last(number)) - Ord("0"))

\* convert_lower_alpha with the slip of multiplying by 25
convert_lower_alpha_base25(number) ==
    LET RECURSIVE loop(_, _)
        loop(i, res) ==
            IF i > Len(number) THEN res
            ELSE loop(i + 1, res * 25 + (Ord(number[i]) - Ord("a") + 1))
    IN  loop(1, 0)

convert_lower_alpha(number) ==
    LET RECURSIVE loop(_, _)
        loop(i, res) ==
            IF i > Len(number) THEN res
            ELSE loop(i + 1, res * 26 + (Ord(number[i]) - Ord("a") + 1))
    IN  loop(1, 0)

\* convert_upper_alpha with the slip of counting 'A' as 0
convert_upper_alpha_from_zero(number) ==
    LET RECURSIVE loop(_, _)
        loop(i, res) ==
            IF i > Len(number) THEN res
            ELSE loop(i + 1, res * 26 + (Ord(number[i]) - Ord("A")))
    IN  loop(1, 0)

convert_upper_alpha(number) ==
    LET RECURSIVE loop(_, _)
        loop(i, res) ==
            IF i > Len(number) THEN res
            ELSE loop(i + 1, res * 26 + (Ord(number[i]) - Ord("A") + 1))
    IN  loop(1, 0)

convert_mixed_alpha(number) == convert_upper_alpha(Upper(number))

\* scheme_converters[scheme]( number )
scheme_converters(scheme, number) ==
    CASE scheme = "decimal"     -> convert_decimal(number)
      [] scheme = "lower-alpha" -> convert_lower_alpha(number)
      [] scheme = "upper-alpha" -> convert_upper_alpha(number)
      [] scheme = "mixed-alpha" -> convert_mixed_alpha(number)

---------------------------------------------------------------------------
(* Character sets for numbering schemes.                                   *)

scheme_character_sets ==
    ("decimal"     :> Range(digits)) @@
    ("lower-alpha" :> Range(ascii_lowercase)) @@
    ("upper-alpha" :> Range(ascii_uppercase)) @@
    ("mixed-alpha" :> Range(ascii_lowercase) \cup Range(ascii_uppercase))

all_scheme_names == DOMAIN scheme_character_sets

\* the set of scheme names that the number might be part of
categorize_number(number) ==
    {scheme_name \in all_scheme_names :
        \A i \in DOMAIN number :
            number[i] \in scheme_character_sets[scheme_name]}

---------------------------------------------------------------------------
(* Inputs.                                                                 *)

\* a unicode string element of `numbers`
U(text) == [type |-> "unicode", text |-> text]

\* labels the sequences of up to MaxLen elements are built from
SampleLabels ==
    { <<"1", ".">>, <<"2", ".">>, <<"3", ".">>, <<"1">>, <<"2">>,
      <<"0", ".">>, <<"1", "0", ".">>, <<"0", "1">>,
      <<"a", ".">>, <<"b", ".">>, <<"A", ".">>, <<"B", ".">>,
      <<"a">>, <<"B">>, <<"a", "B", ".">>, <<"a", "b", ".">>,
      <<" ", "1", ".">>, <<"2", ".", " ">>, <<"\t", "a", ".", " ">>,
      <<>>, <<" ">>, <<".">>, <<"1", ".", ".">>, <<"1", "a", ".">>,
      <<"-", "1", ".">>, <<"1", " ", ".">>,
      <<"\f", "1", ".">>, <<"b", ".", "">>, <<" ", "", "\n">> }

\* elements that are not unicode strings: the byte string '2', the int 14
NonTextElements == { [type |-> "str", text |-> <<"2">>],
                     [type |-> "int", text |-> <<>>] }

SampleElements == {U(l) : l \in SampleLabels} \cup NonTextElements

SampleLists ==
    UNION { [1..n -> SampleElements] : n \in 0..MaxLen }

\* the k-th (from 0) of the strings of `len` letters, in alphabetical order
RECURSIVE LabelOfLength(_, _, _)
LabelOfLength(k, len, alphabet) ==
    IF len = 0 THEN <<>>
    ELSE Append(LabelOfLength(k \div Len(alphabet), len - 1, alphabet),
                alphabet[(k % Len(alphabet)) + 1])

\* the n-th (from 1) label of the enumeration a, b, ..., z, aa, ab, ...,
\* az, ba, ..., zz, aaa, ...: the strings of one letter in alphabetical
\* order, then those of two letters, and so on
NthLabel(n, alphabet) ==
    LET RECURSIVE from(_, _)
        from(m, len) ==
            IF m <= Len(alphabet) ^ len
            THEN LabelOfLength(m - 1, len, alphabet)
            ELSE from(m - Len(alphabet) ^ len, len + 1)
    IN  from(n, 1)

\* the first n labels of the enumeration
Enumeration(n, alphabet) ==
    LET RECURSIVE range(_, _)
        range(lo, hi) ==
            IF lo > hi THEN <<>>
            ELSE IF lo = hi THEN <<NthLabel(lo, alphabet)>>
            ELSE range(lo, (lo + hi) \div 2) \o range((lo + hi) \div 2 + 1, hi)
    IN  range(1, n)

LowerLabels == Enumeration(MaxOrd, ascii_lowercase)

UpperLabels == Enumeration(MaxOrd, ascii_uppercase)

Dotted(label, dot) == IF dot THEN Append(label, ".") ELSE label

\* prefixes, pairs and single labels of the two enumerations
EnumerationLists ==
    UNION { UNION { { [i \in 1..n |-> U(Dotted(labels[i], dot))]
                          : n \in 1..MaxPrefix }
                    \cup
                    { <<U(Dotted(labels[s], dot)), U(Dotted(labels[t], dot))>>
                          : s \in 1..MaxPair, t \in 1..MaxPair }
                    \cup
                    { <<U(Dotted(labels[n], dot))>> : n \in 1..MaxOrd }
                  : dot \in BOOLEAN }
          : labels \in {LowerLabels, UpperLabels} }

\* characters to the unicode elements of a `numbers` list
AsNumbers(texts) == [i \in DOMAIN texts |-> U(texts[i])]

\* the lists the unit tests pass to listalyze
TestLists ==
    { << U(<<"1">>), [type |-> "str", text |-> <<"2">>], U(<<"3">>) >>,
      AsNumbers(<< <<"1", ".">>, <<"2">> >>),
      AsNumbers(<< <<"1">>, <<"2">>, <<"4">> >>),
      AsNumbers(<< <<"1">>, <<"9">>, <<"1", "0">>, <<"1", "1">>,
                   <<"9", "9">>, <<"1", "0", "0">>, <<"1", "0", "1">>,
                   <<"9", "9", "9">>, <<"1", "0", "0", "0">>,
                   <<"1", "0", "0", "1">> >>),
      AsNumbers(<< <<"a">>, <<"b">>, <<"c", ".">>, <<"z">>, <<"a", "a">>,
                   <<"a", "b">>, <<"a", "z">>, <<"b", "a">> >>),
      AsNumbers(<< <<"A">>, <<"B">>, <<"C", ".">>, <<"Z">>, <<"A", "A">>,
                   <<"A", "B">>, <<"A", "Z">>, <<"B", "A">> >>),
      AsNumbers(<< <<"1", ".">>, <<"a", ".">> >>),
      AsNumbers(<< <<"1", ".">>, <<"A", ".">> >>),
      AsNumbers(<< <<"a", ".">>, <<"1", ".">> >>),
      AsNumbers(<< <<"a", ".">>, <<"B", ".">> >>) }

\* the `numbers` arguments: iterables of elements, and the int 14
Inputs ==
    { [kind |-> "list", items |-> l] :
          l \in SampleLists \cup EnumerationLists \cup TestLists }
    \cup { [kind |-> "int", items |-> <<>>] }

---------------------------------------------------------------------------
(* listalyze( numbers, require_dot, mixed_case )                           *)

NoResult == [numbering_type |-> "", value_list |-> <<>>,
             default_order |-> FALSE]

NoError == [type |-> "", what |-> "", type_name |-> "", index |-> -1]

Init ==
    /\ numbers \in Inputs
    /\ require_dot \in BOOLEAN
    /\ mixed_case \in BOOLEAN
    /\ pc = "start"
    /\ numbers_list = <<>>
    /\ raw_numbers_list = <<>>
    /\ number_schemes = {}
    /\ result = NoResult
    /\ raised = NoError

\* numbers_list = [N for N in numbers]; raw_numbers_list = copy( numbers_list )
MakeList ==
    /\ pc = "start"
    /\ numbers.kind = "list"
    /\ numbers_list' = numbers.items
    /\ raw_numbers_list' = numbers.items
    /\ pc' = "strip"
    /\ UNCHANGED <<numbers, require_dot, mixed_case, number_schemes,
                   result, raised>>

\* iterating `numbers` raises TypeError
MakeListRaises ==
    /\ pc = "start"
    /\ numbers.kind # "list"
    /\ raised' = [type |-> "TypeError", what |-> "numbers",
                  type_name |-> numbers.kind, index |-> -1]
    /\ pc' = "raised"
    /\ UNCHANGED <<numbers, require_dot, mixed_case, numbers_list,
                   raw_numbers_list, number_schemes, result>>

\* the type check with the slip of accepting byte strings
IsUnicodeOrStr(element) == element.type \in {"unicode", "str"}

\* type(number) is unicode
IsUnicode(element) == element.type = "unicode"

Min(S) == CHOOSE x \in S : \A y \in S : x <= y

\* positions (from 1) of the elements the type check rejects
NonUnicode(list) == {i \in DOMAIN list : ~IsUnicode(list[i])}

\* every element is unicode: numbers_list[i] = number.strip()
StripNumbers ==
    /\ pc = "strip"
    /\ NonUnicode(numbers_list) = {}
    /\ numbers_list' = [i \in DOMAIN numbers_list |->
                            Strip(numbers_list[i].text)]
    /\ pc' = "dots"
    /\ UNCHANGED <<numbers, require_dot, mixed_case, raw_numbers_list,
                   number_schemes, result, raised>>

\* the loop reaches an element that is not unicode and raises TypeError
\* with its index (from 0); the elements before it are stripped already
StripNumbersRaises ==
    /\ pc = "strip"
    /\ NonUnicode(numbers_list) # {}
    /\ LET k == Min(NonUnicode(numbers_list))
       IN  /\ raised' = [type |-> "TypeError", what |-> "item",
                         type_name |-> numbers_list[k].type, index |-> k - 1]
           /\ numbers_list' = [i \in DOMAIN numbers_list |->
                                  IF i < k THEN Strip(numbers_list[i].text)
                                  ELSE numbers_list[i]]
    /\ pc' = "raised"
    /\ UNCHANGED <<numbers, require_dot, mixed_case, raw_numbers_list,
                   number_schemes, result>>

\* the fallback with the slip of returning the working list (stripped)
dont_recognize_scheme_aliased ==
    [numbering_type |-> "None",
     value_list |-> [i \in DOMAIN numbers_list |-> U(numbers_list[i])],
     default_order |-> FALSE]

\* dont_recognize_scheme = (None, raw_numbers_list, False)
dont_recognize_scheme ==
    [numbering_type |-> "None", value_list |-> raw_numbers_list,
     default_order |-> FALSE]

\* the dot test with the slip of testing the length only
LacksDotShort(number) == Len(number) < 2

\* (len( number ) < 2) or (number[-1] != u'.')
LacksDot(number) == IF Len(number) < 2 THEN TRUE ELSE Last(number) # "."

\* require_dot: every number has its dot, strip 'em all off
RequireDot ==
    /\ pc = "dots"
    /\ require_dot
    /\ \A i \in DOMAIN numbers_list : ~LacksDot(numbers_list[i])
    /\ numbers_list' = [i \in DOMAIN numbers_list |-> Front(numbers_list[i])]
    /\ pc' = "categorize"
    /\ UNCHANGED <<numbers, require_dot, mixed_case, raw_numbers_list,
                   number_schemes, result, raised>>

\* require_dot: a number lacks its dot, return dont_recognize_scheme; the
\* numbers before it have lost their dot already
RequireDotFails ==
    /\ pc = "dots"
    /\ require_dot
    /\ \E i \in DOMAIN numbers_list : LacksDot(numbers_list[i])
    /\ LET k == Min({i \in DOMAIN numbers_list : LacksDot(numbers_list[i])})
       IN  numbers_list' = [i \in DOMAIN numbers_list |->
                               IF i < k THEN Front(numbers_list[i])
                               ELSE numbers_list[i]]
    /\ result' = dont_recognize_scheme
    /\ pc' = "done"
    /\ UNCHANGED <<numbers, require_dot, mixed_case, raw_numbers_list,
                   number_schemes, raised>>

\* if numbers_list[i][-1] == u'.': numbers_list[i] = numbers_list[i][:-1]
StripDot(number) == IF Last(number) = "." THEN Front(number) ELSE number

\* len( numbers_list[i] ) < 1, or numbers_list[i] == u'' after the strip
IsEmptyLabel(number) ==
    IF Len(number) < 1 THEN TRUE ELSE StripDot(number) = <<>>

\* not require_dot: strip trailing dots if they are there
StripDots ==
    /\ pc = "dots"
    /\ ~require_dot
    /\ \A i \in DOMAIN numbers_list : ~IsEmptyLabel(numbers_list[i])
    /\ numbers_list' = [i \in DOMAIN numbers_list |->
                            StripDot(numbers_list[i])]
    /\ pc' = "categorize"
    /\ UNCHANGED <<numbers, require_dot, mixed_case, raw_numbers_list,
                   number_schemes, result, raised>>

\* not require_dot: a number is empty, return dont_recognize_scheme
StripDotsFails ==
    /\ pc = "dots"
    /\ ~require_dot
    /\ \E i \in DOMAIN numbers_list : IsEmptyLabel(numbers_list[i])
    /\ LET k == Min({i \in DOMAIN numbers_list :
                        IsEmptyLabel(numbers_list[i])})
       IN  numbers_list' = [i \in DOMAIN numbers_list |->
                               IF i < k \/ (i = k /\ Len(numbers_list[i]) >= 1)
                               THEN StripDot(numbers_list[i])
                               ELSE numbers_list[i]]
    /\ result' = dont_recognize_scheme
    /\ pc' = "done"
    /\ UNCHANGED <<numbers, require_dot, mixed_case, raw_numbers_list,
                   number_schemes, raised>>

\* the intersection with the slip of "=" for "&="
IntersectOverwrites(schemes, number) == categorize_number(number)

\* number_schemes &= categorize_number( number )
Intersect(schemes, number) == schemes \cap categorize_number(number)

\* the set of schemes that matches all the numbers
MatchingSchemes(list) ==
    LET RECURSIVE loop(_, _)
        loop(i, schemes) ==
            IF i > Len(list) THEN schemes
            ELSE loop(i + 1, Intersect(schemes, list[i]))
    IN  loop(1, all_scheme_names)

CategorizeNumbers ==
    /\ pc = "categorize"
    /\ number_schemes' = MatchingSchemes(numbers_list)
    /\ pc' = "filter"
    /\ UNCHANGED <<numbers, require_dot, mixed_case, numbers_list,
                   raw_numbers_list, result, raised>>

\* the filter with the slip of ignoring mixed_case
FilterMixedCaseOffIgnored(schemes, mixed) == schemes

\* if not mixed_case: remove mixed-alpha
FilterMixedCaseOff(schemes, mixed) ==
    IF ~mixed /\ "mixed-alpha" \in schemes
    THEN schemes \ {"mixed-alpha"}
    ELSE schemes

\* the tie-break with the slip of keeping mixed-alpha
FilterAlternativeKept(schemes) == schemes

\* don't use mixed-alpha if an alternative scheme matches
FilterAlternative(schemes) ==
    IF Cardinality(schemes) > 1 /\ "mixed-alpha" \in schemes
    THEN schemes \ {"mixed-alpha"}
    ELSE schemes

FilterMixedAlpha ==
    /\ pc = "filter"
    /\ number_schemes' =
           FilterAlternative(FilterMixedCaseOff(number_schemes, mixed_case))
    /\ pc' = "resolve"
    /\ UNCHANGED <<numbers, require_dot, mixed_case, numbers_list,
                   raw_numbers_list, result, raised>>

\* the final check with the slip of testing for no scheme only
NotOneSchemeOnlyNone(schemes) == Cardinality(schemes) = 0

\* len( number_schemes ) != 1
NotOneScheme(schemes) == Cardinality(schemes) # 1

NoSchemeRecognized ==
    /\ pc = "resolve"
    /\ NotOneScheme(number_schemes)
    /\ result' = dont_recognize_scheme
    /\ pc' = "done"
    /\ UNCHANGED <<numbers, require_dot, mixed_case, numbers_list,
                   raw_numbers_list, number_schemes, raised>>

\* the default_order loop with the slip of comparing to i, not i + 1
DefaultOrderFromZero(values) ==
    LET RECURSIVE loop(_, _)
        loop(i, default_order) ==
            IF i > Len(values) THEN default_order
            ELSE loop(i + 1, IF values[i] # i - 1 THEN FALSE
                             ELSE default_order)
    IN  loop(1, TRUE)

\* default_order = True; if numbers_list[i] != i + 1: default_order = False
\* (i counts from 0 in the source, from 1 here)
DefaultOrder(values) ==
    LET RECURSIVE loop(_, _)
        loop(i, default_order) ==
            IF i > Len(values) THEN default_order
            ELSE loop(i + 1, IF values[i] # i THEN FALSE ELSE default_order)
    IN  loop(1, TRUE)

\* convert the numbers, force mixed-alpha to upper-alpha, return
ConvertNumbers ==
    /\ pc = "resolve"
    /\ ~NotOneScheme(number_schemes)
    /\ LET scheme == CHOOSE s \in number_schemes : TRUE
           values == [i \in DOMAIN numbers_list |->
                         scheme_converters(scheme, numbers_list[i])]
       IN  /\ numbers_list' = values
           /\ result' = [numbering_type |->
                             IF scheme = "mixed-alpha" THEN "upper-alpha"
                             ELSE scheme,
                         value_list |-> values,
                         default_order |-> DefaultOrder(values)]
    /\ pc' = "done"
    /\ UNCHANGED <<numbers, require_dot, mixed_case, raw_numbers_list,
                   number_schemes, raised>>

Next ==
    \/ MakeList
    \/ MakeListRaises
    \/ StripNumbers
    \/ StripNumbersRaises
    \/ RequireDot
    \/ RequireDotFails
    \/ StripDots
    \/ StripDotsFails
    \/ CategorizeNumbers
    \/ FilterMixedAlpha
    \/ NoSchemeRecognized
    \/ ConvertNumbers

Spec == Init /\ [][Next]_vars

---------------------------------------------------------------------------
(* Properties.                                                             *)

Returned == pc = "done"

Recognized == Returned /\ result.numbering_type # "None"

\* every element of the input is a unicode string
TextInput ==
    /\ numbers.kind = "list"
    /\ \A i \in DOMAIN numbers.items : numbers.items[i].type = "unicode"

InputTexts == [i \in DOMAIN numbers.items |-> numbers.items[i].text]

\* the i-th input label without its leading and trailing whitespace
Trimmed(i) == Strip(numbers.items[i].text)

EndsInDot(s) == IF s = <<>> THEN FALSE ELSE Last(s) = "."

\* the i-th input label trimmed and without its trailing dot, if it has one
NormalizedForm(i) ==
    IF EndsInDot(Trimmed(i)) THEN Front(Trimmed(i)) ELSE Trimmed(i)

Letters == Range(ascii_lowercase) \cup Range(ascii_uppercase)

DigitsOnly(s) == s # <<>> /\ \A k \in DOMAIN s : s[k] \in Range(digits)

HasLetter(s) == \E k \in DOMAIN s : s[k] \in Letters

Alphabetic(s) == s # <<>> /\ \A k \in DOMAIN s : s[k] \in Letters

\* C1 (as claimed): whenever listalyze returns with no scheme recognized,
\* value_list is the input labels with leading and trailing whitespace
\* trimmed, in the same order and of the same length.
C1_FallbackIsTrimmedInput ==
    (Returned /\ result.numbering_type = "None") =>
        /\ Len(result.value_list) = Len(numbers.items)
        /\ \A i \in DOMAIN numbers.items :
               result.value_list[i] = U(Trimmed(i))

\* C1 (amended): whenever listalyze returns with no scheme recognized,
\* value_list is the input labels exactly as they were passed: not trimmed,
\* not dot-stripped, not converted, same order and length.
C1_FallbackIsOriginalInput ==
    (Returned /\ result.numbering_type = "None") =>
        /\ Len(result.value_list) = Len(numbers.items)
        /\ \A i \in DOMAIN numbers.items :
               result.value_list[i] = numbers.items[i]

C1_Witness ==
    /\ Returned
    /\ result.numbering_type = "None"
    /\ \E i \in DOMAIN numbers.items :
           /\ Trimmed(i) # numbers.items[i].text
           /\ result.value_list[i] = numbers.items[i]

\* C2: with require_dot, a label that after trimming is shorter than 2 or
\* does not end in '.' makes listalyze return (None, ., False) whatever the
\* other labels and mixed_case are; without require_dot the labels that get
\* past normalization are the trimmed labels less one trailing '.', and
\* ['1.', '2'] is recognized as decimal in default order.
C2_DotRequirement ==
    /\ (/\ TextInput
        /\ require_dot
        /\ \E i \in DOMAIN numbers.items :
               Len(Trimmed(i)) < 2 \/ ~EndsInDot(Trimmed(i)))
       => /\ pc \in {"start", "strip", "dots", "done"}
          /\ Returned => /\ result.numbering_type = "None"
                         /\ result.default_order = FALSE
    /\ (~require_dot /\ pc \in {"categorize", "filter", "resolve"})
       => numbers_list = [i \in DOMAIN numbers.items |-> NormalizedForm(i)]
    /\ (/\ ~require_dot
        /\ Returned
        /\ InputTexts = << <<"1", ".">>, <<"2">> >>)
       => result = [numbering_type |-> "decimal", value_list |-> <<1, 2>>,
                    default_order |-> TRUE]

C2_Witness ==
    /\ Returned
    /\ require_dot
    /\ InputTexts = << <<"1", ".">>, <<"2">> >>
    /\ result.numbering_type = "None"

\* C3: an input with a label whose normalized form is only digits and a
\* label whose normalized form contains a letter is never recognized,
\* whatever mixed_case is.
C3_MixedSchemesFail ==
    (/\ Returned
     /\ TextInput
     /\ \E i \in DOMAIN numbers.items : DigitsOnly(NormalizedForm(i))
     /\ \E j \in DOMAIN numbers.items : HasLetter(NormalizedForm(j)))
    => result.numbering_type = "None"

C3_Witness ==
    /\ Returned
    /\ mixed_case
    /\ numbers_list = << <<"1">>, <<"a">> >>
    /\ number_schemes = {}
    /\ result.numbering_type = "None"

\* the labels pass normalization and are purely alphabetic
AlphabeticInput ==
    /\ TextInput
    /\ numbers.items # <<>>
    /\ \A i \in DOMAIN numbers.items :
           /\ require_dot => EndsInDot(Trimmed(i))
           /\ Alphabetic(NormalizedForm(i))

HasLower ==
    \E i \in DOMAIN numbers.items : \E k \in DOMAIN NormalizedForm(i) :
        NormalizedForm(i)[k] \in Range(ascii_lowercase)

HasUpper ==
    \E i \in DOMAIN numbers.items : \E k \in DOMAIN NormalizedForm(i) :
        NormalizedForm(i)[k] \in Range(ascii_uppercase)

\* C4: alphabetic labels in which both cases occur are not recognized when
\* mixed_case is off, and are upper-alpha with the values of the uppercased
\* labels when it is on; labels of a single case are recognized as their
\* exact-case scheme whatever mixed_case is.
C4_CaseSensitivity ==
    (Returned /\ AlphabeticInput) =>
        IF HasLower /\ HasUpper
        THEN IF mixed_case
             THEN /\ result.numbering_type = "upper-alpha"
                  /\ result.value_list =
                         [i \in DOMAIN numbers.items |->
                             convert_upper_alpha(Upper(NormalizedForm(i)))]
                  /\ InputTexts = << <<"a", ".">>, <<"B", ".">> >>
                         => result.value_list = <<1, 2>>
             ELSE result.numbering_type = "None"
        ELSE result.numbering_type =
                 IF HasLower THEN "lower-alpha" ELSE "upper-alpha"

C4_Witness ==
    /\ Returned
    /\ mixed_case
    /\ InputTexts = << <<"a", ".">>, <<"B", ".">> >>
    /\ result.numbering_type = "upper-alpha"
    /\ result.value_list = <<1, 2>>

\* C5: when a scheme is recognized, default_order is true exactly when the
\* value at every position i (from 1) is i; when none is recognized,
\* default_order is false.
C5_DefaultOrder ==
    Returned =>
        IF result.numbering_type # "None"
        THEN result.default_order <=>
                 \A i \in DOMAIN result.value_list : result.value_list[i] = i
        ELSE result.default_order = FALSE

C5_Witness ==
    /\ Recognized
    /\ result.value_list = <<1, 2, 4>>
    /\ result.default_order = FALSE

AllLower == \A i \in DOMAIN numbers.items :
                \A k \in DOMAIN NormalizedForm(i) :
                    NormalizedForm(i)[k] \in Range(ascii_lowercase)

AllUpper == \A i \in DOMAIN numbers.items :
                \A k \in DOMAIN NormalizedForm(i) :
                    NormalizedForm(i)[k] \in Range(ascii_uppercase)

\* C6: the n-th label of a, b, ..., z, aa, ab, ... (and of A, B, ...)
\* converts to n; listalyze on the first N labels, without require_dot,
\* returns the alphabetic scheme, the values 1..N and default order; and
\* distinct labels of the same case convert to distinct ordinals.
C6_BijectiveBase26 ==
    /\ (Recognized /\ result.numbering_type \in {"lower-alpha", "upper-alpha"})
       => \A i \in DOMAIN numbers.items :
              LET label == NormalizedForm(i)
              IN  \A n \in 1..MaxOrd :
                      (label = LowerLabels[n] \/ label = UpperLabels[n])
                      => result.value_list[i] = n
    /\ (Returned /\ TextInput /\ ~require_dot)
       => LET N == Len(numbers.items)
              texts == InputTexts
          IN  (1 <= N /\ N <= MaxPrefix) =>
                  \A dot \in BOOLEAN :
                      /\ texts = [i \in 1..N |-> Dotted(LowerLabels[i], dot)]
                         => result = [numbering_type |-> "lower-alpha",
                                      value_list |-> [i \in 1..N |-> i],
                                      default_order |-> TRUE]
                      /\ texts = [i \in 1..N |-> Dotted(UpperLabels[i], dot)]
                         => result = [numbering_type |-> "upper-alpha",
                                      value_list |-> [i \in 1..N |-> i],
                                      default_order |-> TRUE]
    /\ (Recognized /\ TextInput /\ (AllLower \/ AllUpper))
       => \A i, j \in DOMAIN numbers.items :
              NormalizedForm(i) # NormalizedForm(j)
              => result.value_list[i] # result.value_list[j]

C6_Witness ==
    /\ Returned
    /\ ~require_dot
    /\ InputTexts = [i \in 1..28 |-> NthLabel(i, ascii_lowercase)]
    /\ result = [numbering_type |-> "lower-alpha",
                 value_list |-> [i \in 1..28 |-> i],
                 default_order |-> TRUE]

\* C7 (as claimed): when a scheme is recognized, every value of value_list
\* is at least 1.
C7_ValuesAtLeastOne ==
    Recognized => \A i \in DOMAIN result.value_list : result.value_list[i] >= 1

\* C7 (amended): when a scheme is recognized, every value of value_list is
\* at least 0; it is at least 1 for lower-alpha and upper-alpha, and for
\* decimal it is 0 exactly when the normalized label is made of '0' only.
C7_ValuesAtLeastZero ==
    Recognized =>
        \A i \in DOMAIN result.value_list :
            /\ result.value_list[i] >= 0
            /\ result.numbering_type # "decimal" => result.value_list[i] >= 1
            /\ result.numbering_type = "decimal" =>
                   (result.value_list[i] = 0 <=>
                        \A k \in DOMAIN NormalizedForm(i) :
                            NormalizedForm(i)[k] = "0")

C7_Witness ==
    /\ Recognized
    /\ result.numbering_type = "decimal"
    /\ \E i \in DOMAIN result.value_list : result.value_list[i] = 0

NonTextPositions ==
    {i \in DOMAIN numbers.items : numbers.items[i].type # "unicode"}

\* C8: an input with an element that is not a unicode string ends in a
\* TypeError naming the index (from 0) of the first such element and
\* returns no result, whatever the other labels and the flags are; a
\* non-iterable `numbers` ends in a TypeError too.
C8_TypeErrorNotAbsorbed ==
    /\ (numbers.kind = "list" /\ NonTextPositions # {})
       => /\ pc \in {"start", "strip", "raised"}
          /\ result = NoResult
          /\ pc = "raised" =>
                 /\ raised.type = "TypeError"
                 /\ raised.what = "item"
                 /\ raised.index = Min(NonTextPositions) - 1
                 /\ raised.type_name =
                        numbers.items[Min(NonTextPositions)].type
    /\ numbers.kind # "list"
       => /\ pc \in {"start", "raised"}
          /\ result = NoResult
          /\ pc = "raised" => raised.type = "TypeError"
    /\ pc = "raised" => (numbers.kind # "list" \/ NonTextPositions # {})

C8_Witness ==
    /\ pc = "raised"
    /\ require_dot
    /\ numbers.items = << U(<<"2">>), [type |-> "str", text |-> <<"2">>] >>
    /\ raised.index = 1

\* C9 (as claimed): for the empty input, default_order is True.
C9_EmptyDefaultOrderTrue ==
    (Returned /\ numbers.kind = "list" /\ numbers.items = <<>>)
    => result.default_order = TRUE

\* C9 (amended): for the empty input listalyze returns no scheme, an
\* empty value_list and default_order False, whatever the flags are.
C9_EmptyNotRecognized ==
    (Returned /\ numbers.kind = "list" /\ numbers.items = <<>>)
    => result = [numbering_type |-> "None", value_list |-> <<>>,
                 default_order |-> FALSE]

C9_Witness ==
    /\ Returned
    /\ mixed_case
    /\ numbers.kind = "list"
    /\ numbers.items = <<>>
    /\ result.default_order = FALSE

\* C10 (as claimed): the candidate set that reaches the 'exactly one
\* scheme' check holds zero or one scheme, for inputs of any length.
C10_AtMostOneScheme ==
    pc = "resolve" => Cardinality(number_schemes) <= 1

\* C10 (amended): for a non-empty input the candidate set that reaches the
\* 'exactly one scheme' check holds zero or one scheme; for the empty input
\* it holds the three schemes decimal, lower-alpha and upper-alpha.
C10_AtMostOneSchemeUnlessEmpty ==
    pc = "resolve" =>
        IF numbers.items = <<>>
        THEN number_schemes = {"decimal", "lower-alpha", "upper-alpha"}
        ELSE Cardinality(number_schemes) <= 1

C10_Witness ==
    /\ pc = "resolve"
    /\ mixed_case
    /\ numbers.items # <<>>
    /\ AllLower
    /\ number_schemes = {"lower-alpha"}

===========================================================================
